---- MODULE Spec2Model ----
(***************************************************************************)
(* teslamate-telegram: per-vehicle telemetry tracking and session          *)
(* detection (main.go).  The MQTT handler (carHandler) applies field       *)
(* updates to a car and re-arms its debounce timer; a relay goroutine per  *)
(* car forwards timer ticks to the carUpdates channel; the main loop       *)
(* receives from carUpdates and evaluates the charging and driving axes,   *)
(* and answers the bot's status command.  truncate, placeName and          *)
(* formatDuration are also examined on their own.                          *)
(*                                                                         *)
(* Strings that the code parses are sequences of one-character strings.    *)
(* Message texts are sequences of rendered tokens; the empty text is <<>>. *)
(***************************************************************************)
EXTENDS Integers, Sequences, FiniteSets, TLC

VARIABLES
    cars,         \* map[int]*Car: the discovered cars
    defaultCar,   \* var defaultCar int
    relay,        \* position of each car's relay goroutine: "recv" | "send"
    carUpdates,   \* chan *Car, capacity 1
    handler,      \* position of the MQTT handler goroutine
    main,         \* position of the main loop: at the select or inside a lookup
    pure,         \* a call of a pure function on its own: arguments and result
    now,          \* time.Now(): messages arrive at distinct, increasing instants
    crashed,      \* the process died of a panic
    iter,         \* the step just taken: the handler's call, or what the main loop
                  \* logged, formatted and sent
    firstSeen,    \* history: car id of the first update ever received (0: none)
    unevaluated,  \* history: updates applied to a car since it was last evaluated
    whole,        \* history: each car's snapshot after its last whole Update call
    highest       \* history: per car, the highest charger power applied and the
                  \* highest evaluated since its charging session started, and
                  \* the snapshots evaluated when its running sessions started

vars == <<cars, defaultCar, relay, carUpdates, handler, main, pure, now, crashed,
          iter, firstSeen, unevaluated, whole, highest>>

----------------------------------------------------------------------------
(* Bounds *)

MaxMsgs == 3      \* MQTT messages delivered in one behaviour

MaxFleetMsgs == 4 \* the same, for the fleet whose place names are looked up

MaxSessionMsgs == 4   \* the same, for the feed of one session after another

MaxTail == 4      \* characters that vary at the end of a string given to truncate

MaxDuration == 5500   \* seconds: durations given to formatDuration, 0 to 91m40s

CarIds == {1, 2}  \* the car ids that appear in topics

----------------------------------------------------------------------------
(* Program constants *)

ChanCap == 1          \* make(chan *Car, 1)
chatId == 100         \* TELEGRAM_CHAT_ID, the configured destination
OtherChat == 200      \* some other chat that talks to the bot
MetresPerTenthMile == 161   \* KMPerMile = 1.61: 0.1 mile = 0.161 km
Limit == 20           \* truncate(name, 20)
Minute == 60          \* time.Minute; the model counts durations in seconds

----------------------------------------------------------------------------
(* strconv.Atoi on a sequence of characters *)

Digits == <<"0", "1", "2", "3", "4", "5", "6", "7", "8", "9">>

IsDigit(ch) == \E i \in 1..10 : Digits[i] = ch

DigitVal(ch) == (CHOOSE i \in 1..10 : Digits[i] = ch) - 1

RECURSIVE DigitsVal(_, _)
DigitsVal(s, acc) ==
    IF s = <<>> THEN acc ELSE DigitsVal(Tail(s), acc * 10 + DigitVal(Head(s)))

Atoi(s) ==
    LET body == IF s # <<>> /\ Head(s) \in {"+", "-"} THEN Tail(s) ELSE s
        neg  == s # <<>> /\ Head(s) = "-"
    IN  IF body = <<>> \/ \E i \in 1..Len(body) : ~IsDigit(body[i])
        THEN [err |-> TRUE, val |-> 0]
        ELSE [err |-> FALSE,
              val |-> IF neg THEN 0 - DigitsVal(body, 0) ELSE DigitsVal(body, 0)]

(* strconv.ParseFloat for the odometer; the model keeps kilometres given   *)
(* as whole numbers and stores them in metres.                             *)
ParseFloat(s) ==
    LET r == Atoi(s)
    IN  [err |-> r.err, val |-> r.val * 1000]

----------------------------------------------------------------------------
(* CarState and Car *)

ZeroCarState ==
    [at |-> 0, geofence |-> <<>>, chargerPower |-> 0, batteryLevel |-> 0,
     shiftState |-> <<>>, odometer |-> 0]

NewCar ==
    [carState |-> ZeroCarState,
     charging |-> FALSE, chargeStart |-> ZeroCarState, chargePeak |-> ZeroCarState,
     driving |-> FALSE, driveStart |-> ZeroCarState,
     update |-> [armed |-> TRUE, C |-> 0]]

(* Mutation: the parse error is not looked at, the zero result is stored. *)
UpdateField_ErrorIgnored(cs, key, value) ==
    CASE key = "shift_state" -> [cs EXCEPT !.shiftState = value]
      [] key = "geofence" -> [cs EXCEPT !.geofence = value]
      [] key = "charger_power" -> [cs EXCEPT !.chargerPower = Atoi(value).val]
      [] key = "battery_level" -> [cs EXCEPT !.batteryLevel = Atoi(value).val]
      [] key = "odometer" -> [cs EXCEPT !.odometer = ParseFloat(value).val]
      [] OTHER -> cs

(* The switch of Car.Update: the field named by key is overwritten when    *)
(* the value parses; anything else leaves the snapshot alone.              *)
UpdateField(cs, key, value) ==
    CASE key = "shift_state" -> [cs EXCEPT !.shiftState = value]
      [] key = "geofence" -> [cs EXCEPT !.geofence = value]
      [] key = "charger_power" ->
            IF Atoi(value).err THEN cs
            ELSE [cs EXCEPT !.chargerPower = Atoi(value).val]
      [] key = "battery_level" ->
            IF Atoi(value).err THEN cs
            ELSE [cs EXCEPT !.batteryLevel = Atoi(value).val]
      [] key = "odometer" ->
            IF ParseFloat(value).err THEN cs
            ELSE [cs EXCEPT !.odometer = ParseFloat(value).val]
      [] OTHER -> cs

(* Car.Update: the timestamp first, then the field. *)
Update(car, key, value, t) ==
    [car EXCEPT !.carState = UpdateField([car.carState EXCEPT !.at = t], key, value)]

driveShiftState(s) == s = <<"D">> \/ s = <<"R">>

----------------------------------------------------------------------------
(* Strings.  A Go string is a sequence of bytes: len and s[:n] count       *)
(* bytes.  A text is a sequence of characters and Encode(text) the bytes   *)
(* of its UTF-8 encoding; Wide stands for a character of two bytes.        *)

Wide == "U+00E9"

Chars == {"a", ",", Wide}

UTF8(ch) == IF ch = Wide THEN <<"0xC3", "0xA9">> ELSE <<ch>>

RECURSIVE Encode(_)
Encode(text) ==
    IF text = <<>> THEN <<>> ELSE UTF8(Head(text)) \o Encode(Tail(text))

(* strings.LastIndex(s, b): the zero-based index of the last b, or -1. *)
LastIndex(s, b) ==
    IF \E i \in 1..Len(s) : s[i] = b
    THEN (CHOOSE i \in 1..Len(s) : s[i] = b /\ \A j \in (i + 1)..Len(s) : s[j] # b) - 1
    ELSE -1

(* truncate: s when shorter than limit, else s[:l] for the last comma in   *)
(* s[:limit], else s[:limit].                                              *)
truncate(s, limit) ==
    IF Len(s) < limit THEN s
    ELSE LET l == LastIndex(SubSeq(s, 1, limit), ",")
         IN  SubSeq(s, 1, IF l # -1 THEN l ELSE limit)

(* Mutation: the display name is not used when the name is empty. *)
placeName_NameOnly(cs, result) ==
    IF cs.geofence # <<>> THEN [name |-> cs.geofence, lookups |-> 0]
    ELSE [name |-> IF ~result.err /\ result.Name # <<>>
                   THEN truncate(result.Name, Limit) ELSE <<"?">>,
          lookups |-> 1]

(* CarState.placeName, result being what nominatimLookup returns when it   *)
(* is called; lookups counts the calls made.                               *)
placeName(cs, result) ==
    IF cs.geofence # <<>> THEN [name |-> cs.geofence, lookups |-> 0]
    ELSE LET name == IF result.Name = <<>> THEN result.DisplayName ELSE result.Name
         IN  [name |-> IF ~result.err /\ name # <<>>
                       THEN truncate(name, Limit) ELSE <<"?">>,
              lookups |-> 1]

----------------------------------------------------------------------------
(* Durations, in seconds and never negative: a session's end and start     *)
(* both come from time.Now() and carry its monotonic reading.              *)

(* fmt's %d of a number that is not negative. *)
RECURSIVE Itoa(_)
Itoa(n) ==
    IF n < 10 THEN <<Digits[n + 1]>>
    ELSE Itoa(n \div 10) \o <<Digits[(n % 10) + 1]>>

(* Mutation: the duration is cut to whole minutes. *)
Round_Down(d, m) == d - (d % m)

(* Duration.Round(m) for d >= 0: halfway values round up. *)
Round(d, m) ==
    LET r == d % m
    IN  IF r + r < m THEN d - r ELSE d + m - r

formatDuration(d) ==
    LET u == Round(d, Minute) \div Minute
    IN  IF u < 60 THEN Itoa(u) \o <<"m">>
        ELSE Itoa(u \div 60) \o <<"h">> \o Itoa(u % 60) \o <<"m">>

----------------------------------------------------------------------------
(* Message formatters *)

(* Mutation: the message is rendered even when the battery level is unchanged. *)
finishChargingMessage_NoSuppress(start, end, peak) ==
    <<"Charging finished", ToString(start.at), ToString(end.at),
      ToString(start.batteryLevel), ToString(end.batteryLevel),
      ToString(end.batteryLevel - start.batteryLevel),
      ToString(peak.chargerPower), ToString(peak.batteryLevel)>>

(* finishChargingMessage: empty when the battery level did not change. *)
finishChargingMessage(start, end, peak) ==
    LET battery == end.batteryLevel - start.batteryLevel
    IN  IF battery = 0 THEN <<>>
        ELSE <<"Charging finished", ToString(start.at), ToString(end.at),
               ToString(start.batteryLevel), ToString(end.batteryLevel),
               ToString(battery),
               ToString(peak.chargerPower), ToString(peak.batteryLevel)>>

(* Mutation: the message is rendered whatever the distance. *)
finishDriveMessage_NoSuppress(start, end) ==
    <<"Drive", ToString(end.odometer - start.odometer),
      ToString(start.at), ToString(end.at),
      ToString(start.batteryLevel), ToString(end.batteryLevel),
      ToString(end.batteryLevel - start.batteryLevel)>>

(* finishDriveMessage: empty when the distance is under 0.1 mile.          *)
(* distance = (end.odometer - start.odometer) / KMPerMile, odometer in m.  *)
finishDriveMessage(start, end) ==
    LET metres == end.odometer - start.odometer
    IN  IF metres < MetresPerTenthMile THEN <<>>
        ELSE <<"Drive", ToString(metres),
               ToString(start.at), ToString(end.at),
               ToString(start.batteryLevel), ToString(end.batteryLevel),
               ToString(end.batteryLevel - start.batteryLevel)>>

(* statusMessage dereferences its car. *)
statusMessage(car) == <<"Battery", ToString(car.carState.batteryLevel), "%">>

----------------------------------------------------------------------------
(* The main loop's evaluation of one car (case car := <-carUpdates).       *)
(* Each axis yields the car after it, the lines logged, the formatter      *)
(* calls, the messages sent, and whether it left the select by `break`.    *)

LogLine(line, cs) == [line |-> line, state |-> cs]

Call(fn, start, end, peak, text) ==
    [fn |-> fn, start |-> start, end |-> end, peak |-> peak, text |-> text]

(* bot.Send(tgbotapi.NewMessage(chatId, text)) *)
Send(text) == <<[chat |-> chatId, text |-> text]>>

NoOutcome(car) ==
    [car |-> car, log |-> <<>>, calls |-> <<>>, sent |-> <<>>, brk |-> FALSE]

(* Mutation: the charging flag is left set at the end of a session. *)
stopCharging_Missing(car) == car

(* car.charging = false *)
stopCharging(car) == [car EXCEPT !.charging = FALSE]

(* Mutation: the end and peak arguments are swapped. *)
chargeEndCall_Swapped(car) ==
    Call("finishChargingMessage", car.chargeStart, car.chargePeak, car.carState,
         finishChargingMessage(car.chargeStart, car.chargePeak, car.carState))

(* finishChargingMessage(car.chargeStart, car.carState, car.chargePeak) *)
chargeEndCall(car) ==
    Call("finishChargingMessage", car.chargeStart, car.carState, car.chargePeak,
         finishChargingMessage(car.chargeStart, car.carState, car.chargePeak))

(* Mutation: a higher power is logged but not recorded. *)
newChargePeak_Missing(car) == car

(* Mutation: only the power of the peak is replaced, not the snapshot. *)
newChargePeak_PowerOnly(car) ==
    [car EXCEPT !.chargePeak.chargerPower = car.carState.chargerPower]

(* car.chargePeak = car.carState *)
newChargePeak(car) == [car EXCEPT !.chargePeak = car.carState]

(* Mutation: the start snapshot is not recorded when a session starts. *)
startCharging_NoStart(car) ==
    [car EXCEPT !.charging = TRUE, !.chargePeak = car.carState]

(* Mutation: the peak is not recorded when a session starts. *)
startCharging_NoPeak(car) ==
    [car EXCEPT !.charging = TRUE, !.chargeStart = car.carState]

(* car.charging = true; car.chargeStart = car.carState; car.chargePeak = car.carState *)
startCharging(car) ==
    [car EXCEPT !.charging = TRUE, !.chargeStart = car.carState,
                !.chargePeak = car.carState]

chargeAxis(car) ==
    LET cs == car.carState
    IN  IF car.charging /\ cs.chargerPower = 0 THEN
            LET call == chargeEndCall(car)
            IN  [car   |-> stopCharging(car),
                 log   |-> <<LogLine("Finished charging", cs)>>,
                 calls |-> <<call>>,
                 sent  |-> IF call.text = <<>> THEN <<>> ELSE Send(call.text),
                 brk   |-> call.text = <<>>]
        ELSE IF car.charging /\ cs.chargerPower > car.chargePeak.chargerPower THEN
            [NoOutcome(newChargePeak(car)) EXCEPT
                !.log = <<LogLine("New charging peak", cs)>>]
        ELSE IF ~car.charging /\ cs.chargerPower > 0 THEN
            [NoOutcome(startCharging(car)) EXCEPT
                !.log = <<LogLine("Started charging", cs)>>]
        ELSE NoOutcome(car)

(* Mutation: the session starts without its start snapshot. *)
startDriving_NoStart(car) == [car EXCEPT !.driving = TRUE]

(* car.driving = true; car.driveStart = car.carState *)
startDriving(car) == [car EXCEPT !.driving = TRUE, !.driveStart = car.carState]

(* car.driving = false *)
stopDriving(car) == [car EXCEPT !.driving = FALSE]

(* finishDriveMessage(car.driveStart, car.carState) *)
driveEndCall(car) ==
    Call("finishDriveMessage", car.driveStart, car.carState, ZeroCarState,
         finishDriveMessage(car.driveStart, car.carState))

driveAxis(car) ==
    LET cs == car.carState
    IN  IF driveShiftState(cs.shiftState) /\ ~car.driving THEN
            [NoOutcome(startDriving(car)) EXCEPT
                !.log = <<LogLine("Started driving", cs)>>]
        ELSE IF ~driveShiftState(cs.shiftState) /\ car.driving THEN
            LET call == driveEndCall(car)
            IN  [car   |-> stopDriving(car),
                 log   |-> <<LogLine("Finished driving", cs)>>,
                 calls |-> <<call>>,
                 sent  |-> IF call.text = <<>> THEN <<>> ELSE Send(call.text),
                 brk   |-> call.text = <<>>]
        ELSE NoOutcome(car)

(* The whole case body: the charging chain, then, unless the charging     *)
(* chain left the select by `break`, the driving chain on the same car.   *)
evaluate(car) ==
    LET ch == chargeAxis(car)
        dr == IF ch.brk THEN NoOutcome(ch.car) ELSE driveAxis(ch.car)
    IN  [car   |-> dr.car,
         log   |-> <<LogLine("State update", car.carState)>> \o ch.log \o dr.log,
         calls |-> ch.calls \o dr.calls,
         sent  |-> ch.sent \o dr.sent]

(* History of a car's sessions: nothing outside a session, and the number  *)
(* of sessions that ended.                                                 *)
NoSession ==
    [applied |-> 0, evaluated |-> 0,
     chargeBegan |-> ZeroCarState, driveBegan |-> ZeroCarState,
     charged |-> 0, driven |-> 0]

Max(a, b) == IF a >= b THEN a ELSE b

(* The history after Update(car, key, value). *)
Applied(h, car, key, value) ==
    IF key = "charger_power" /\ ~Atoi(value).err /\ car.charging
    THEN [h EXCEPT !.applied = Max(@, Atoi(value).val)]
    ELSE h

(* The history after the charging chain found the car as before and left  *)
(* it as after: chargeBegan is the snapshot evaluated when the session     *)
(* that is running started.                                                *)
SeenCharging(h, before, after) ==
    LET power == before.carState.chargerPower
    IN  IF ~after.charging
        THEN [h EXCEPT !.applied = 0, !.evaluated = 0, !.chargeBegan = ZeroCarState,
                       !.charged = IF before.charging THEN @ + 1 ELSE @]
        ELSE IF ~before.charging
        THEN [h EXCEPT !.applied = power, !.evaluated = power,
                       !.chargeBegan = before.carState]
        ELSE [h EXCEPT !.evaluated = Max(@, power)]

(* The same for the driving chain. *)
SeenDriving(h, before, after) ==
    IF ~after.driving
    THEN [h EXCEPT !.driveBegan = ZeroCarState,
                   !.driven = IF before.driving THEN @ + 1 ELSE @]
    ELSE IF ~before.driving THEN [h EXCEPT !.driveBegan = before.carState]
    ELSE h

(* The history after a whole evaluation. *)
Seen(h, before, after) == SeenDriving(SeenCharging(h, before, after), before, after)

NoIter ==
    [kind |-> "none", car |-> 0, before |-> NewCar, key |-> "", value |-> <<>>,
     log |-> <<>>, calls |-> <<>>, sent |-> <<>>, highest |-> NoSession]

----------------------------------------------------------------------------
(* Inputs *)

(* MQTT payloads per field of a single-car feed. *)
Payloads ==
    [charger_power |-> {<<"0">>, <<"1">>, <<"2">>},
     battery_level |-> {<<"5">>},
     shift_state   |-> {<<"D">>, <<"R">>, <<"P">>},
     odometer      |-> {<<"1">>, <<"-", "1">>}]

(* MQTT payloads per field of a feed of several cars. *)
FleetPayloads == [battery_level |-> {<<"5">>}, charger_power |-> {<<"1">>}]

(* MQTT payloads of a feed with values that do not parse (TeslaMate        *)
(* publishes the empty payload for a value it does not know) and with a   *)
(* topic the program has no case for.                                      *)
ParsePayloads ==
    [charger_power |-> {<<"1">>, <<"x">>},
     battery_level |-> {<<"5">>, <<>>},
     shift_state   |-> {<<"D">>},
     odometer      |-> {<<"1">>, <<"1", "x">>},
     speed         |-> {<<"7">>}]

(* MQTT payloads of a feed long enough for a car's second session. *)
SessionPayloads ==
    [charger_power |-> {<<"0">>, <<"1">>},
     shift_state   |-> {<<"D">>, <<"P">>}]

(* Bot updates: one without a message, the status command, any other text. *)
BotUpdates ==
    {[hasMessage |-> FALSE, cmd |-> "", chat |-> 0],
     [hasMessage |-> TRUE, cmd |-> "status", chat |-> OtherChat],
     [hasMessage |-> TRUE, cmd |-> "other", chat |-> chatId]}

----------------------------------------------------------------------------
(* Initial state: after main has subscribed and connected the bot *)

(* The program before any message, whatever pure holds. *)
Started ==
    /\ cars = <<>>
    /\ defaultCar = 0
    /\ relay = <<>>
    /\ carUpdates = <<>>
    /\ handler = [pc |-> "idle"]
    /\ main = [pc |-> "select"]
    /\ now = 1
    /\ crashed = FALSE
    /\ iter = NoIter
    /\ firstSeen = 0
    /\ unevaluated = [c \in CarIds |-> 0]
    /\ whole = [c \in CarIds |-> ZeroCarState]
    /\ highest = [c \in CarIds |-> NoSession]

NoCall == [fn |-> "none"]

Init == Started /\ pure = NoCall

----------------------------------------------------------------------------
(* carHandler *)

(* The car the handler works on: the known one or a newly discovered one. *)
lookupCar(c) == IF c \in DOMAIN cars THEN cars[c] ELSE NewCar

(* Discovery: cars[carId] = car, the relay goroutine starts, and          *)
(* defaultCar = carId.                                                     *)
discoverDefault(c) == IF c \in DOMAIN cars THEN defaultCar ELSE c

discoverRelay(c) == IF c \in DOMAIN cars THEN relay ELSE (c :> "recv") @@ relay

(* Mutation: the handler does not re-arm the timer. *)
Reset_Missing(car) == car

(* car.update.Reset(time.Second) *)
Reset(car) == [car EXCEPT !.update.armed = TRUE]

(* A message whose topic does not scan: the handler returns at once. *)
BadTopic ==
    /\ ~crashed /\ handler.pc = "idle" /\ now <= MaxMsgs
    /\ now' = now + 1
    /\ iter' = NoIter
    /\ UNCHANGED <<pure, highest, cars, defaultCar, relay, carUpdates, handler, main, crashed,
                   firstSeen, unevaluated, whole>>

(* The whole handler as one step: discovery, Update, Reset; limit bounds   *)
(* the messages delivered.                                                 *)
Deliver(limit, c, key, value) ==
    /\ ~crashed /\ handler.pc = "idle" /\ now <= limit
    /\ now' = now + 1
    /\ LET car == Reset(Update(lookupCar(c), key, value, now))
       IN  /\ cars' = (c :> car) @@ cars
           /\ whole' = [whole EXCEPT ![c] = car.carState]
    /\ defaultCar' = discoverDefault(c)
    /\ relay' = discoverRelay(c)
    /\ firstSeen' = IF firstSeen = 0 THEN c ELSE firstSeen
    /\ unevaluated' = [unevaluated EXCEPT ![c] = @ + 1]
    /\ highest' = [highest EXCEPT ![c] = Applied(@, lookupCar(c), key, value)]
    /\ iter' = [NoIter EXCEPT !.kind = "update", !.car = c, !.before = lookupCar(c),
                              !.key = key, !.value = value]
    /\ UNCHANGED <<pure, carUpdates, handler, main, crashed>>

CarHandler(c, key, value) == Deliver(MaxMsgs, c, key, value)

(* The handler on its own goroutine, statement by statement: discovery    *)
(* and the timestamp write of Update, ...                                  *)
HandlerBegin(c, key, value) ==
    /\ ~crashed /\ handler.pc = "idle" /\ now <= MaxMsgs
    /\ now' = now + 1
    /\ cars' = (c :> [lookupCar(c) EXCEPT !.carState.at = now]) @@ cars
    /\ defaultCar' = discoverDefault(c)
    /\ relay' = discoverRelay(c)
    /\ firstSeen' = IF firstSeen = 0 THEN c ELSE firstSeen
    /\ handler' = [pc |-> "switch", car |-> c, key |-> key, value |-> value]
    /\ iter' = NoIter
    /\ UNCHANGED <<pure, highest, carUpdates, main, crashed, unevaluated, whole>>

(* ... the field write of Update's switch, ...                             *)
HandlerSwitch ==
    /\ ~crashed /\ handler.pc = "switch"
    /\ LET c == handler.car
           cs == UpdateField(cars[c].carState, handler.key, handler.value)
       IN  /\ cars' = [cars EXCEPT ![c].carState = cs]
           /\ whole' = [whole EXCEPT ![c] = cs]
           /\ unevaluated' = [unevaluated EXCEPT ![c] = @ + 1]
           /\ highest' = [highest EXCEPT
                            ![c] = Applied(@, cars[c], handler.key, handler.value)]
    /\ handler' = [pc |-> "reset", car |-> handler.car]
    /\ iter' = NoIter
    /\ UNCHANGED <<pure, defaultCar, relay, carUpdates, main, now, crashed, firstSeen>>

(* ... and the timer reset.                                                *)
HandlerReset ==
    /\ ~crashed /\ handler.pc = "reset"
    /\ cars' = [cars EXCEPT ![handler.car] = Reset(@)]
    /\ handler' = [pc |-> "idle"]
    /\ iter' = NoIter
    /\ UNCHANGED <<pure, highest, defaultCar, relay, carUpdates, main, now, crashed, firstSeen,
                   unevaluated, whole>>

----------------------------------------------------------------------------
(* The debounce timer and the relay goroutine of a car *)

(* The timer expires: a non-blocking send on update.C (buffer of one). *)
TimerFire(c) ==
    /\ ~crashed /\ c \in DOMAIN cars
    /\ cars[c].update.armed
    /\ cars' = [cars EXCEPT ![c].update = [armed |-> FALSE, C |-> 1]]
    /\ iter' = NoIter
    /\ UNCHANGED <<pure, highest, defaultCar, relay, carUpdates, handler, main, now, crashed,
                   firstSeen, unevaluated, whole>>

(* for range update.C *)
RelayRecv(c) ==
    /\ ~crashed /\ c \in DOMAIN cars
    /\ relay[c] = "recv" /\ cars[c].update.C = 1
    /\ cars' = [cars EXCEPT ![c].update.C = 0]
    /\ relay' = [relay EXCEPT ![c] = "send"]
    /\ iter' = NoIter
    /\ UNCHANGED <<pure, highest, defaultCar, carUpdates, handler, main, now, crashed,
                   firstSeen, unevaluated, whole>>

(* carUpdates <- car *)
RelaySend(c) ==
    /\ ~crashed /\ c \in DOMAIN cars
    /\ relay[c] = "send" /\ Len(carUpdates) < ChanCap
    /\ carUpdates' = Append(carUpdates, c)
    /\ relay' = [relay EXCEPT ![c] = "recv"]
    /\ iter' = NoIter
    /\ UNCHANGED <<pure, highest, cars, defaultCar, handler, main, now, crashed,
                   firstSeen, unevaluated, whole>>

----------------------------------------------------------------------------
(* The main loop *)

(* case car := <-carUpdates *)
CarUpdate ==
    /\ ~crashed /\ main.pc = "select" /\ carUpdates # <<>>
    /\ LET c == Head(carUpdates)
           r == evaluate(cars[c])
       IN  /\ cars' = [cars EXCEPT ![c] = r.car]
           /\ iter' = [NoIter EXCEPT !.kind = "car", !.car = c, !.before = cars[c],
                         !.log = r.log, !.calls = r.calls, !.sent = r.sent,
                         !.highest = highest[c]]
           /\ unevaluated' = [unevaluated EXCEPT ![c] = 0]
           /\ highest' = [highest EXCEPT ![c] = Seen(@, cars[c], r.car)]
    /\ carUpdates' = Tail(carUpdates)
    /\ UNCHANGED <<pure, defaultCar, relay, handler, main, now, crashed, firstSeen, whole>>

(* case update := <-botUpdates *)
BotUpdate(hasMessage, cmd, chat) ==
    /\ ~crashed /\ main.pc = "select"
    /\ IF ~hasMessage THEN
            /\ iter' = [NoIter EXCEPT !.kind = "bot"]
            /\ UNCHANGED crashed
       ELSE IF cmd = "status" THEN
            IF defaultCar \in DOMAIN cars
            THEN /\ iter' = [NoIter EXCEPT !.kind = "status", !.car = defaultCar,
                               !.sent = <<[chat |-> chat,
                                           text |-> statusMessage(cars[defaultCar])]>>]
                 /\ UNCHANGED crashed
            ELSE \* cars[defaultCar] is nil: statusMessage panics
                 /\ iter' = [NoIter EXCEPT !.kind = "status"]
                 /\ crashed' = TRUE
       ELSE
            /\ iter' = [NoIter EXCEPT !.kind = "hello",
                          !.sent = <<[chat |-> chat, text |-> <<"Hello", ToString(chat)>>]>>]
            /\ UNCHANGED crashed
    /\ UNCHANGED <<pure, highest, cars, defaultCar, relay, carUpdates, handler, main, now,
                   firstSeen, unevaluated, whole>>

(* Timers, relays and the main loop, for the cars of ids. *)
Background(ids) ==
    \/ \E c \in ids : TimerFire(c)
    \/ \E c \in ids : RelayRecv(c)
    \/ \E c \in ids : RelaySend(c)
    \/ CarUpdate
    \/ \E u \in BotUpdates : BotUpdate(u.hasMessage, u.cmd, u.chat)

(* A feed of one car, each handler call one step. *)
Next ==
    \/ BadTopic
    \/ \E key \in DOMAIN Payloads : \E value \in Payloads[key] : CarHandler(1, key, value)
    \/ Background({1})

Spec == Init /\ [][Next]_vars

(* A feed of several cars, each handler call one step. *)
NextFleet ==
    \/ BadTopic
    \/ \E c \in CarIds, key \in DOMAIN FleetPayloads :
          \E value \in FleetPayloads[key] : CarHandler(c, key, value)
    \/ Background(CarIds)

SpecFleet == Init /\ [][NextFleet]_vars

(* A feed of one car, the handler goroutine running beside the main loop. *)
NextRace ==
    \/ BadTopic
    \/ \E key \in DOMAIN Payloads : \E value \in Payloads[key] : HandlerBegin(1, key, value)
    \/ HandlerSwitch
    \/ HandlerReset
    \/ Background({1})

SpecRace == Init /\ [][NextRace]_vars

(* A feed of one car with unparseable values and unknown topics. *)
NextParse ==
    \/ BadTopic
    \/ \E key \in DOMAIN ParsePayloads :
          \E value \in ParsePayloads[key] : CarHandler(1, key, value)
    \/ Background({1})

SpecParse == Init /\ [][NextParse]_vars

(* A feed of one car that starts and ends sessions, one after another. *)
NextSessions ==
    \/ BadTopic
    \/ \E key \in DOMAIN SessionPayloads :
          \E value \in SessionPayloads[key] : Deliver(MaxSessionMsgs, 1, key, value)
    \/ Background({1})

SpecSessions == Init /\ [][NextSessions]_vars

----------------------------------------------------------------------------
(* The main loop inside nominatimLookup.  A formatter that gets past its   *)
(* suppression test calls placeName on its start snapshot (and, for a      *)
(* drive, on its end snapshot); placeName of a snapshot without geofence   *)
(* calls nominatimLookup, a synchronous http.Get without a timeout, on     *)
(* the main loop's goroutine.  CarUpdate is the evaluation whose lookups   *)
(* return at once; LookupBegin and LookupReturn are the evaluation around  *)
(* a lookup that takes time, or never returns.                             *)

NeedsLookup(call) ==
    /\ call.text # <<>>
    /\ \/ call.start.geofence = <<>>
       \/ call.fn = "finishDriveMessage" /\ call.end.geofence = <<>>

Blocks(outcome) == outcome.calls # <<>> /\ NeedsLookup(outcome.calls[1])

(* MQTT payloads of the fleet: one car charges, the other reports. *)
LookupPayloads ==
    <<[charger_power |-> {<<"0">>, <<"1">>}, battery_level |-> {<<"5">>}],
      [battery_level |-> {<<"5">>}]>>

(* case car := <-carUpdates, up to the http.Get of the first lookup: the   *)
(* chain's flag is already cleared and the formatter's arguments are       *)
(* already copied.                                                         *)
LookupBegin ==
    /\ ~crashed /\ main.pc = "select" /\ carUpdates # <<>>
    /\ LET c  == Head(carUpdates)
           ch == chargeAxis(cars[c])
           dr == IF ch.brk THEN NoOutcome(ch.car) ELSE driveAxis(ch.car)
           line == <<LogLine("State update", cars[c].carState)>>
       IN  /\ Blocks(ch) \/ Blocks(dr)
           /\ IF Blocks(ch)
              THEN /\ cars' = [cars EXCEPT ![c] = ch.car]
                   /\ main' = [pc |-> "lookup", car |-> c, stage |-> "charging",
                               highest |-> highest[c],
                               before |-> cars[c], log |-> line \o ch.log,
                               calls |-> <<>>, sent |-> <<>>, call |-> ch.calls[1]]
              ELSE /\ cars' = [cars EXCEPT ![c] = dr.car]
                   /\ main' = [pc |-> "lookup", car |-> c, stage |-> "driving",
                               highest |-> highest[c],
                               before |-> cars[c], log |-> line \o ch.log \o dr.log,
                               calls |-> ch.calls, sent |-> ch.sent,
                               call |-> dr.calls[1]]
           /\ unevaluated' = [unevaluated EXCEPT ![c] = 0]
           /\ highest' = [highest EXCEPT
                            ![c] = IF Blocks(ch) THEN SeenCharging(@, cars[c], ch.car)
                                   ELSE Seen(@, cars[c], dr.car)]
    /\ carUpdates' = Tail(carUpdates)
    /\ iter' = NoIter
    /\ UNCHANGED <<pure, defaultCar, relay, handler, now, crashed, firstSeen, whole>>

(* The lookup returns: the text is sent, and after a charging end the      *)
(* driving chain runs on the car as it is by now.                          *)
LookupReturn ==
    /\ ~crashed /\ main.pc = "lookup"
    /\ LET c     == main.car
           calls == Append(main.calls, main.call)
           sent  == main.sent \o Send(main.call.text)
           dr    == IF main.stage = "charging" THEN driveAxis(cars[c])
                    ELSE NoOutcome(cars[c])
       IN  /\ cars' = [cars EXCEPT ![c] = dr.car]
           /\ highest' = [highest EXCEPT ![c] = SeenDriving(@, cars[c], dr.car)]
           /\ IF Blocks(dr)
              THEN /\ main' = [main EXCEPT !.stage = "driving",
                                           !.log = main.log \o dr.log,
                                           !.calls = calls, !.sent = sent,
                                           !.call = dr.calls[1]]
                   /\ iter' = NoIter
              ELSE /\ main' = [pc |-> "select"]
                   /\ iter' = [NoIter EXCEPT !.kind = "car", !.car = c,
                                             !.before = main.before,
                                             !.highest = main.highest,
                                             !.log = main.log \o dr.log,
                                             !.calls = calls \o dr.calls,
                                             !.sent = sent \o dr.sent]
    /\ UNCHANGED <<pure, defaultCar, relay, carUpdates, handler, now, crashed,
                   firstSeen, unevaluated, whole>>

(* A feed of several cars, the main loop's lookups taking time. *)
NextLookup ==
    \/ BadTopic
    \/ \E c \in CarIds : \E key \in DOMAIN LookupPayloads[c] :
          \E value \in LookupPayloads[c][key] : Deliver(MaxFleetMsgs, c, key, value)
    \/ Background(CarIds)
    \/ LookupBegin
    \/ LookupReturn

SpecLookup == Init /\ [][NextLookup]_vars

----------------------------------------------------------------------------
(* The pure functions on their own: the arguments are drawn at the start,  *)
(* one step applies the function.                                          *)

program == <<cars, defaultCar, relay, carUpdates, handler, main, now, crashed,
             iter, firstSeen, unevaluated, whole, highest>>

(* Texts of up to Limit + 1 characters around the limit, with and without  *)
(* a leading comma, and short ones.                                        *)
Tails == UNION {[1..n -> Chars] : n \in 0..MaxTail}

Pads ==
    {<<>>, [i \in 1..(Limit - 3) |-> "a"],
     [i \in 1..(Limit - 3) |-> IF i = 1 THEN "," ELSE "a"]}

Texts == {p \o t : p \in Pads, t \in Tails}

InitTruncate ==
    /\ Started
    /\ pure \in {[fn |-> "truncate", text |-> t, s |-> Encode(t), limit |-> Limit,
                  done |-> FALSE, out |-> <<>>] : t \in Texts}

TruncateCall ==
    /\ pure.fn = "truncate" /\ ~pure.done
    /\ pure' = [pure EXCEPT !.done = TRUE, !.out = truncate(pure.s, pure.limit)]
    /\ UNCHANGED program

SpecTruncate == InitTruncate /\ [][TruncateCall]_vars

(* An address longer than the limit, with a comma. *)
LongName == [i \in 1..(Limit + 2) |-> IF i = 3 THEN "," ELSE "a"]

(* Snapshots without and with a geofence, short and long. *)
Geofences == {<<>>, <<"H">>, LongName}

(* What nominatimLookup returns: an error, or a result with any names. *)
LookupResults ==
    {[err |-> TRUE, Name |-> <<>>, DisplayName |-> <<>>]}
        \cup {[err |-> FALSE, Name |-> Encode(n), DisplayName |-> Encode(d)] :
                 n \in Texts, d \in {<<>>, <<"a", Wide>>, LongName}}

InitPlaceName ==
    /\ Started
    /\ pure \in {[fn |-> "placeName", cs |-> [ZeroCarState EXCEPT !.geofence = g],
                  result |-> r, done |-> FALSE, out |-> [name |-> <<>>, lookups |-> 0]] :
                    g \in Geofences, r \in LookupResults}

PlaceNameCall ==
    /\ pure.fn = "placeName" /\ ~pure.done
    /\ pure' = [pure EXCEPT !.done = TRUE, !.out = placeName(pure.cs, pure.result)]
    /\ UNCHANGED program

SpecPlaceName == InitPlaceName /\ [][PlaceNameCall]_vars

(* Durations up to MaxDuration, and some of a day and more. *)
Durations == (0..MaxDuration) \cup {86370, 90000, 359999}

InitDuration ==
    /\ Started
    /\ pure \in {[fn |-> "formatDuration", d |-> d, done |-> FALSE, out |-> <<>>] :
                    d \in Durations}

FormatDurationCall ==
    /\ pure.fn = "formatDuration" /\ ~pure.done
    /\ pure' = [pure EXCEPT !.done = TRUE, !.out = formatDuration(pure.d)]
    /\ UNCHANGED program

SpecDuration == InitDuration /\ [][FormatDurationCall]_vars

----------------------------------------------------------------------------
(* Properties.  After a CarUpdate step, iter.before is the car as the      *)
(* evaluation found it and cars[iter.car] the car as the evaluation left   *)
(* it; a handler call records its key and value; the other steps clear     *)
(* iter.                                                                   *)

Evaluated == iter.kind = "car"

Snap == iter.before.carState

After == cars[iter.car]

Logged(line) == \E i \in 1..Len(iter.log) : iter.log[i].line = line

CallsOf(fn) == SelectSeq(iter.calls, LAMBDA call : call.fn = fn)

(* C1: an evaluation that finds the charging axis Idle and charger power   *)
(* above zero leaves the car charging, with chargeStart and chargePeak     *)
(* both equal to the snapshot evaluated, and calls no charging-end         *)
(* formatter.                                                              *)
C1_ChargingStart ==
    (Evaluated /\ ~iter.before.charging /\ Snap.chargerPower > 0)
        => /\ After.charging
           /\ After.chargeStart = Snap
           /\ After.chargePeak = Snap
           /\ CallsOf("finishChargingMessage") = <<>>

C1_Witness ==
    /\ Evaluated /\ ~iter.before.charging /\ Snap.chargerPower > 0
    /\ Logged("Started charging")
    /\ After.chargeStart.at > 0

(* C2: an evaluation that finds the charging axis Active and charger       *)
(* power zero leaves the car not charging and produces exactly one         *)
(* charging-end event, carrying the session's start snapshot, the          *)
(* snapshot evaluated and the session's peak snapshot.                     *)
C2_ChargingEnd ==
    (Evaluated /\ iter.before.charging /\ Snap.chargerPower = 0)
        => /\ ~After.charging
           /\ Len(CallsOf("finishChargingMessage")) = 1
           /\ LET call == CallsOf("finishChargingMessage")[1]
              IN  /\ call.start = iter.before.chargeStart
                  /\ call.end = Snap
                  /\ call.peak = iter.before.chargePeak

C2_Witness ==
    /\ Evaluated /\ iter.before.charging /\ Snap.chargerPower = 0
    /\ Logged("Finished charging")
    /\ Snap # iter.before.chargeStart
    /\ iter.sent # <<>>

(* C3: an evaluation that finds the driving axis Idle and the shift state  *)
(* "D" or "R" leaves the car driving with driveStart the snapshot          *)
(* evaluated; one that finds the axis Active and the shift state neither   *)
(* leaves the car not driving and produces one driving-end event carrying  *)
(* the recorded start and the snapshot evaluated.  (The claim's last       *)
(* sentence, on which start an end event carries, is not needed to refute  *)
(* it.)                                                                    *)
C3_DrivingSession ==
    /\ (Evaluated /\ ~iter.before.driving /\ driveShiftState(Snap.shiftState))
          => (After.driving /\ After.driveStart = Snap)
    /\ (Evaluated /\ iter.before.driving /\ ~driveShiftState(Snap.shiftState))
          => /\ ~After.driving
             /\ Len(CallsOf("finishDriveMessage")) = 1
             /\ CallsOf("finishDriveMessage")[1].start = iter.before.driveStart
             /\ CallsOf("finishDriveMessage")[1].end = Snap

(* C4: whatever the charging axis did in an evaluation, the driving        *)
(* transition whose condition holds on the evaluated snapshot is taken.    *)
C4_DrivingIndependent ==
    Evaluated =>
        After.driving = driveShiftState(Snap.shiftState)

(* C5 as claimed: every update is evaluated before the next update to the  *)
(* same car overwrites the snapshot it left.                               *)
C5_EveryUpdateEvaluated == \A c \in CarIds : unevaluated[c] <= 1

(* An evaluation of car c is on its way: its timer is armed or has ticked, *)
(* its relay holds a tick, it is queued in carUpdates, or the handler is   *)
(* about to reset its timer.                                               *)
EvaluationPending(c) ==
    \/ cars[c].update.armed
    \/ cars[c].update.C = 1
    \/ relay[c] = "send"
    \/ \E i \in 1..Len(carUpdates) : carUpdates[i] = c
    \/ (handler.pc = "reset" /\ handler.car = c)

(* C5 as amended: while a car has an update that no evaluation has seen,   *)
(* an evaluation of it is pending; updates that arrive before it runs are  *)
(* coalesced into that one evaluation of the latest snapshot.              *)
C5_UpdateLeavesEvaluationPending ==
    \A c \in DOMAIN cars : unevaluated[c] > 0 => EvaluationPending(c)

C5_Witness ==
    \E c \in DOMAIN cars :
        /\ unevaluated[c] >= 2
        /\ carUpdates = <<c>>

(* C6: on each axis session starts and session ends alternate, beginning   *)
(* with a start: a start is logged only by an evaluation that found the    *)
(* axis Idle and left it Active, an end only by one that found it Active   *)
(* and left it Idle, the axis changes only with exactly one such           *)
(* transition, and each end comes with exactly one end event.              *)
C6_TransitionsAlternate ==
    Evaluated =>
        /\ Logged("Started charging") => (~iter.before.charging /\ After.charging)
        /\ Logged("Finished charging") => (iter.before.charging /\ ~After.charging)
        /\ ~(Logged("Started charging") /\ Logged("Finished charging"))
        /\ (iter.before.charging # After.charging)
              => (Logged("Started charging") \/ Logged("Finished charging"))
        /\ Len(CallsOf("finishChargingMessage"))
              = (IF Logged("Finished charging") THEN 1 ELSE 0)
        /\ Logged("Started driving") => (~iter.before.driving /\ After.driving)
        /\ Logged("Finished driving") => (iter.before.driving /\ ~After.driving)
        /\ ~(Logged("Started driving") /\ Logged("Finished driving"))
        /\ (iter.before.driving # After.driving)
              => (Logged("Started driving") \/ Logged("Finished driving"))
        /\ Len(CallsOf("finishDriveMessage"))
              = (IF Logged("Finished driving") THEN 1 ELSE 0)

C6_Witness ==
    /\ Evaluated
    /\ Logged("Started charging")
    /\ iter.before.chargeStart.at > 0
    /\ After.chargeStart.at > iter.before.chargeStart.at

(* C7: the handler's update of a car and the detector's evaluation of it   *)
(* never interleave: the detector evaluates the snapshot left by the last  *)
(* whole Update call, never one with an update half applied.               *)
C7_UpdatesSerialized ==
    Evaluated =>
        /\ ~(handler.pc = "switch" /\ handler.car = iter.car)
        /\ Snap = whole[iter.car]

(* C8: the default car is the first car id ever seen in an update. *)
C8_DefaultIsFirstSeen == firstSeen # 0 => defaultCar = firstSeen

(* C9: a status query is answered with a non-empty text rendering the      *)
(* default car's battery level, and never ends the process.                *)
C9_StatusAlwaysAnswers ==
    /\ ~crashed
    /\ iter.kind = "status"
          => /\ Len(iter.sent) = 1
             /\ iter.sent[1].text # <<>>
             /\ iter.sent[1].text = statusMessage(cars[defaultCar])

(* C10: a charging session that ends with the battery level it started     *)
(* with yields the empty text, no message is sent, and the car is left     *)
(* not charging.                                                           *)
C10_ChargingEndSuppressed ==
    (/\ Evaluated /\ iter.before.charging /\ Snap.chargerPower = 0
     /\ Snap.batteryLevel = iter.before.chargeStart.batteryLevel)
        => /\ Len(CallsOf("finishChargingMessage")) = 1
           /\ CallsOf("finishChargingMessage")[1].text = <<>>
           /\ iter.sent = <<>>
           /\ ~After.charging

C10_Witness ==
    /\ Evaluated /\ iter.before.charging /\ Snap.chargerPower = 0
    /\ Snap.batteryLevel = iter.before.chargeStart.batteryLevel
    /\ Snap.at # iter.before.chargeStart.at
    /\ Snap.shiftState # iter.before.chargeStart.shiftState
    /\ ~After.charging

(* The messages of the evaluation sent with the text of formatter call fn. *)
SentFor(fn) ==
    SelectSeq(iter.sent, LAMBDA m :
        \E i \in 1..Len(iter.calls) :
            iter.calls[i].fn = fn /\ iter.calls[i].text = m.text)

(* C11: an evaluation that ends a driving session calls the driving-end    *)
(* formatter once; when the odometer has advanced by less than 0.1 mile    *)
(* (zero and negative advances included) the text is empty and nothing is  *)
(* sent for the session, otherwise the text is non-empty and is sent once. *)
C11_DrivingEndSuppressed ==
    (Evaluated /\ Logged("Finished driving"))
        => /\ Len(CallsOf("finishDriveMessage")) = 1
           /\ LET call == CallsOf("finishDriveMessage")[1]
                  metres == call.end.odometer - call.start.odometer
              IN  IF metres < MetresPerTenthMile
                  THEN call.text = <<>> /\ SentFor("finishDriveMessage") = <<>>
                  ELSE /\ call.text # <<>>
                       /\ SentFor("finishDriveMessage")
                             = <<[chat |-> chatId, text |-> call.text]>>

C11_Witness ==
    /\ Evaluated /\ Logged("Finished driving")
    /\ Snap.odometer < iter.before.driveStart.odometer
    /\ iter.sent = <<>>

(* The formatter calls of the evaluation that returned a non-empty text. *)
NonEmptyCalls == SelectSeq(iter.calls, LAMBDA call : call.text # <<>>)

(* C12: every message sent for a session end or for a status query goes    *)
(* to the configured chat, whichever chat issued the query; an evaluation  *)
(* sends exactly one message per session end whose text is non-empty, and  *)
(* a status query is answered with exactly one message.                    *)
C12_SingleDestination ==
    /\ iter.kind \in {"car", "status"}
          => \A i \in 1..Len(iter.sent) : iter.sent[i].chat = chatId
    /\ Evaluated => Len(iter.sent) = Len(NonEmptyCalls)
    /\ iter.kind = "status" => Len(iter.sent) = 1

(* The status reply of a running program goes to the chat that asked. *)
C12_StatusRepliesToSender ==
    (iter.kind = "status" /\ ~crashed)
        => Len(iter.sent) = 1 /\ iter.sent[1].chat = OtherChat

(* After a CarHandler step, iter holds the call's key and value and        *)
(* iter.before the car as the call found it.                               *)
Updated == iter.kind = "update"

(* The fields that expect a number, and all the fields with a case. *)
NumericFields == {"charger_power", "battery_level", "odometer"}

KnownFields == NumericFields \cup {"shift_state", "geofence"}

Unusable(key, value) ==
    \/ key \notin KnownFields
    \/ key \in {"charger_power", "battery_level"} /\ Atoi(value).err
    \/ key = "odometer" /\ ParseFloat(value).err

(* C13: every Update call overwrites the timestamp with the time of the    *)
(* call; a call whose field name has no case, or whose value does not      *)
(* parse as the number the field expects, changes nothing else of the      *)
(* snapshot, leaves both session flags and the start and peak snapshots    *)
(* as they were, and does not end the process.                             *)
C13_PermissiveParsing ==
    Updated =>
        /\ After.carState.at = now - 1
        /\ Unusable(iter.key, iter.value) =>
              /\ After.carState = [iter.before.carState EXCEPT !.at = now - 1]
              /\ After.charging = iter.before.charging
              /\ After.driving = iter.before.driving
              /\ After.chargeStart = iter.before.chargeStart
              /\ After.chargePeak = iter.before.chargePeak
              /\ After.driveStart = iter.before.driveStart
              /\ ~crashed

C13_Witness ==
    /\ Updated /\ iter.key = "charger_power" /\ Atoi(iter.value).err
    /\ iter.before.charging
    /\ After.carState.chargerPower > 0

(* The second of two applications of the same update to car, each          *)
(* followed by its evaluation: the snapshots after the first and after     *)
(* the second application, and the outcome of the second evaluation.       *)
Twice(car, key, value) ==
    LET first  == Update(car, key, value, now)
        second == Update(evaluate(first).car, key, value, now + 1)
    IN  [first |-> first.carState, second |-> second.carState,
         outcome |-> evaluate(second)]

(* C14: for every state a car can be in and every field update, applying   *)
(* the update, evaluating, and applying the same update again leaves the   *)
(* snapshot, timestamp aside, as the first application left it, and the    *)
(* evaluation after the repetition logs no start, peak or end and calls    *)
(* no formatter.                                                           *)
C14_UpdateIdempotent ==
    \A c \in DOMAIN cars : \A key \in DOMAIN Payloads : \A value \in Payloads[key] :
        LET t == Twice(cars[c], key, value)
        IN  /\ [t.second EXCEPT !.at = 0] = [t.first EXCEPT !.at = 0]
            /\ Len(t.outcome.log) = 1
            /\ t.outcome.calls = <<>>

(* The main loop is inside a lookup started for car a. *)
LookupInFlight(a) == main.pc = "lookup" /\ main.car = a

(* C15: while the lookup started for one car's session-end message has     *)
(* not returned, another car that waits in carUpdates for its evaluation   *)
(* can be evaluated: the main loop is able to receive it.                  *)
C15_LookupDoesNotStall ==
    \A a \in CarIds : \A b \in CarIds \ {a} :
        (LookupInFlight(a) /\ carUpdates = <<b>> /\ unevaluated[b] > 0)
            => ENABLED (CarUpdate \/ LookupBegin)

(* A pure function has been applied to the arguments held in pure. *)
Returned(fn) == pure.fn = fn /\ pure.done

(* C16: placeName returns the geofence as it is, without a lookup, when    *)
(* the geofence is not empty; otherwise truncate(_, 20) of the looked-up   *)
(* name, or of the display name when the name is empty; and "?" when the   *)
(* lookup fails or both are empty.  The result is a string in every case:  *)
(* the lookup's error goes no further.                                     *)
C16_PlaceName ==
    Returned("placeName") =>
        LET g == pure.cs.geofence
            r == pure.result
        IN  /\ g # <<>> => (pure.out.name = g /\ pure.out.lookups = 0)
            /\ (g = <<>> /\ ~r.err /\ r.Name # <<>>)
                  => pure.out.name = truncate(r.Name, Limit)
            /\ (g = <<>> /\ ~r.err /\ r.Name = <<>> /\ r.DisplayName # <<>>)
                  => pure.out.name = truncate(r.DisplayName, Limit)
            /\ (g = <<>> /\ (r.err \/ (r.Name = <<>> /\ r.DisplayName = <<>>)))
                  => pure.out.name = <<"?">>
            /\ DOMAIN pure.out = {"name", "lookups"}

C16_Witness ==
    /\ Returned("placeName")
    /\ pure.cs.geofence = <<>> /\ ~pure.result.err
    /\ pure.result.Name = <<>> /\ Len(pure.result.DisplayName) > Limit
    /\ pure.out.name # pure.result.DisplayName
    /\ pure.out.name # <<"?">>

(* What the truncation rule gives for a sequence x and a limit: x when     *)
(* shorter than the limit, else x up to its last comma among the first     *)
(* limit elements, the comma left out, else its first limit elements.      *)
CutAtComma(x, limit) ==
    LET commas == {i \in 1..limit : i <= Len(x) /\ x[i] = ","}
    IN  IF Len(x) < limit THEN x
        ELSE IF commas # {}
             THEN SubSeq(x, 1, (CHOOSE i \in commas : \A j \in commas : j <= i) - 1)
             ELSE SubSeq(x, 1, limit)

(* C17: truncate(s, 20) is the first k characters of s for some k <= 20;   *)
(* it is s when s has fewer than 20 characters, else s up to the last      *)
(* comma among its first 20 characters, else its first 20 characters.      *)
C17_Truncate ==
    Returned("truncate") =>
        /\ \E k \in 0..Limit : pure.out = Encode(SubSeq(pure.text, 1, k))
        /\ pure.out = Encode(CutAtComma(pure.text, Limit))

(* The rule holds of the bytes of s: truncate counts bytes. *)
C17_TruncateOnBytes ==
    Returned("truncate") =>
        /\ \E k \in 0..Limit : pure.out = SubSeq(pure.s, 1, k)
        /\ pure.out = CutAtComma(pure.s, Limit)

(* The minutes a rendered duration stands for, read back from its digits. *)
RenderedMinutes(text) ==
    LET hs   == {i \in 1..Len(text) : text[i] = "h"}
        h    == IF hs = {} THEN 0 ELSE CHOOSE i \in hs : TRUE
        mins == DigitsVal(SubSeq(text, h + 1, Len(text) - 1), 0)
    IN  IF h = 0 THEN mins ELSE 60 * DigitsVal(SubSeq(text, 1, h - 1), 0) + mins

(* The whole minute nearest to d seconds, halves going up. *)
NearestMinute(d) == (2 * d + Minute) \div (2 * Minute)

(* C18: formatDuration of a duration whose nearest whole minute is m       *)
(* renders "<m>m" when m < 60 and "<m div 60>h<m mod 60>m" when m >= 60,   *)
(* the one form only below 60 and the other only from 60 on; the minutes   *)
(* rendered never decrease as the duration grows; 89m30s renders "1h30m".  *)
C18_FormatDuration ==
    Returned("formatDuration") =>
        LET m == NearestMinute(pure.d)
        IN  /\ m < 60 => pure.out = Itoa(m) \o <<"m">>
            /\ m >= 60 => pure.out = Itoa(m \div 60) \o <<"h">> \o Itoa(m % 60) \o <<"m">>
            /\ (m < 60) <=> (\A i \in 1..Len(pure.out) : pure.out[i] # "h")
            /\ RenderedMinutes(pure.out) = m
            /\ pure.d > 0 =>
                  RenderedMinutes(formatDuration(pure.d - 1)) <= RenderedMinutes(pure.out)
            /\ pure.d = 89 * Minute + 30 => pure.out = <<"1", "h", "3", "0", "m">>

C18_Witness ==
    /\ Returned("formatDuration")
    /\ pure.d = 89 * Minute + 30
    /\ pure.out = <<"1", "h", "3", "0", "m">>

ChargingLines == {"Finished charging", "New charging peak", "Started charging"}

(* C19: an evaluation that finds the car charging with a charger power     *)
(* above the peak snapshot's makes the evaluated snapshot the peak; one    *)
(* that finds it charging with a power above zero and not above the        *)
(* peak's leaves the peak as it was; and no evaluation takes more than     *)
(* one of the charging cases end, peak and start.                          *)
C19_PeakTracking ==
    Evaluated =>
        /\ (iter.before.charging
               /\ Snap.chargerPower > iter.before.chargePeak.chargerPower)
              => (After.chargePeak = Snap /\ Logged("New charging peak"))
        /\ (iter.before.charging /\ Snap.chargerPower > 0
               /\ Snap.chargerPower <= iter.before.chargePeak.chargerPower)
              => (After.chargePeak = iter.before.chargePeak
                    /\ \A line \in ChargingLines : ~Logged(line))
        /\ Cardinality({line \in ChargingLines : Logged(line)}) <= 1

C19_Witness ==
    /\ Evaluated /\ iter.before.charging
    /\ Snap.chargerPower > iter.before.chargePeak.chargerPower
    /\ After.chargePeak = Snap
    /\ After.chargePeak # After.chargeStart

(* C20 as claimed: after every evaluation that leaves the car charging,    *)
(* and in the charging-end event, the peak snapshot's charger power is at  *)
(* least every charger_power value a field update has applied to the car   *)
(* since the session started.                                              *)
C20_PeakIsHighestApplied ==
    Evaluated =>
        /\ After.charging
              => After.chargePeak.chargerPower >= highest[iter.car].applied
        /\ Logged("Finished charging")
              => CallsOf("finishChargingMessage")[1].peak.chargerPower
                    >= iter.highest.applied

(* C20 as amended: at every point of a charging session, and in the        *)
(* charging-end event, the peak snapshot's charger power is at least the   *)
(* charger power of every snapshot evaluated since the session started.    *)
C20_PeakIsHighestEvaluated ==
    /\ \A c \in DOMAIN cars :
          cars[c].charging => cars[c].chargePeak.chargerPower >= highest[c].evaluated
    /\ (Evaluated /\ Logged("Finished charging"))
          => LET call == CallsOf("finishChargingMessage")[1]
             IN  /\ call.peak.chargerPower >= iter.highest.evaluated
                 /\ call.peak.chargerPower >= call.start.chargerPower
                 /\ call.peak.chargerPower >= call.end.chargerPower

C20_Witness ==
    /\ Evaluated /\ Logged("Finished charging")
    /\ CallsOf("finishChargingMessage")[1].peak.chargerPower = iter.highest.evaluated
    /\ iter.highest.applied > iter.highest.evaluated

(* C21 as claimed: a car whose charging axis is Idle holds no start and no *)
(* peak snapshot, and one whose driving axis is Idle holds no start        *)
(* snapshot: an end transition discards them.                              *)
C21_SessionStateDiscarded ==
    \A c \in DOMAIN cars :
        /\ ~cars[c].charging
              => (cars[c].chargeStart = ZeroCarState /\ cars[c].chargePeak = ZeroCarState)
        /\ ~cars[c].driving => cars[c].driveStart = ZeroCarState

(* C21 as amended: an end transition clears the axis's flag and leaves the *)
(* start and peak snapshots stored; an evaluation that finds an axis Idle  *)
(* reads none of them, and when it starts a session it first replaces them *)
(* with the snapshot evaluated.                                            *)
C21_SessionStateOverwritten ==
    Evaluated =>
        /\ Logged("Finished charging")
              => /\ ~After.charging
                 /\ After.chargeStart = iter.before.chargeStart
                 /\ After.chargePeak = iter.before.chargePeak
        /\ Logged("Finished driving")
              => (~After.driving /\ After.driveStart = iter.before.driveStart)
        /\ ~iter.before.charging
              => /\ CallsOf("finishChargingMessage") = <<>>
                 /\ IF After.charging
                    THEN After.chargeStart = Snap /\ After.chargePeak = Snap
                    ELSE /\ After.chargeStart = iter.before.chargeStart
                         /\ After.chargePeak = iter.before.chargePeak
        /\ ~iter.before.driving
              => /\ CallsOf("finishDriveMessage") = <<>>
                 /\ After.driveStart
                       = (IF After.driving THEN Snap ELSE iter.before.driveStart)

C21_Witness ==
    /\ Evaluated /\ ~iter.before.charging /\ After.charging
    /\ iter.before.chargeStart # ZeroCarState
    /\ After.chargeStart = Snap
    /\ After.chargeStart # iter.before.chargeStart

C23_PlaceNameNeverEmpty ==
    Returned("placeName") => pure.out.name # <<>>

(* placeName returns the empty string only for a looked-up name of limit   *)
(* bytes or more whose only comma among the first limit bytes is the first *)
(* byte.                                                                   *)
C23_EmptyOnlyAtLeadingComma ==
    (Returned("placeName") /\ pure.out.name = <<>>)
        => LET r == pure.result
               name == IF r.Name = <<>> THEN r.DisplayName ELSE r.Name
           IN  /\ pure.cs.geofence = <<>> /\ ~r.err
               /\ Len(name) >= Limit
               /\ name[1] = ","
               /\ \A j \in 2..Limit : name[j] # ","

====
